---- MODULE Spec2Model ----
(***************************************************************************)
(* Model of the analytics service: the simulated price feed and the        *)
(* volatility calculator (volatility_calculator.py), the risk analyzer     *)
(* and its per-user tracker (risk_analyzer.py), and the Redis stream       *)
(* consumer (redis_consumer.py) together with the /analyze endpoint        *)
(* (main.py).                                                              *)
(*                                                                         *)
(* Numbers.  The program computes in floating point; the model computes in *)
(* fixed point:                                                            *)
(*   time         whole seconds since a Monday 00:00                       *)
(*   price        whole currency units                                     *)
(*   return, vol  parts per million (1e-6)                                 *)
(*   slippage     thousandths of a basis point                             *)
(*   risk score   points (the code only ever adds whole numbers)           *)
(***************************************************************************)
EXTENDS Integers, Sequences, FiniteSets, TLC

\* ------------------------------------------------------------------------
\* Bounds of the model
\* ------------------------------------------------------------------------
MaxBurst == 12
MaxAnalyses == 2
MaxPrior == 101
MaxLate == 1
MaxTicks == 1200
MaxRough == 2
MaxStream == 2
MaxFaults == 1
MaxManual == 1
MaxRunStream == 1
MaxCalcTicks == 10
MaxIdle == 3
MaxFixture == 10
MaxHistTicks == 2
MaxWait == 6
MaxFeedTicks == 4
MaxBatch == 2
MaxTickFaults == 1

\* ------------------------------------------------------------------------
\* Program constants
\* ------------------------------------------------------------------------
PriceHistoryMaxLen == 1000
RecentOrdersMaxLen == 100
BtcStartingPrice == 45000
PriceFloor == 1000
VolatilityWindowMinutes == 1
HighVolatilityThreshold == 50000
ExtremeVolatilityThreshold == 100000
RejectThreshold == 70
WarnThreshold == 30
FrequencyWindowMinutes == 5
FrequencyLimit == 10
BatchCount == 10
StoreTtlSeconds == 86400

\* btc_volatility_factor * sqrt(dt) = 0.02 * sqrt(1/86400), in 1e-9
VolSqrtDtPPB == 68041
\* drift * dt = 0.0001 / 86400, in 1e-9
DriftDtPPB == 1
\* sqrt(365 * 24 * 60)
AnnualFactor == 725

\* ------------------------------------------------------------------------
\* Generic helpers
\* ------------------------------------------------------------------------
Min(a, b) == IF a < b THEN a ELSE b
Max(a, b) == IF a > b THEN a ELSE b
Abs(a) == IF a < 0 THEN -a ELSE a

RECURSIVE IsqrtIter(_, _, _)
IsqrtIter(lo, hi, a) ==
    IF lo >= hi THEN lo
    ELSE LET mid == (lo + hi + 1) \div 2
         IN IF mid * mid <= a THEN IsqrtIter(mid, hi, a)
                              ELSE IsqrtIter(lo, mid - 1, a)

\* floor of the square root
Isqrt(a) == IsqrtIter(0, Min(a, 46340), a)

RECURSIVE SumSeq(_)
SumSeq(s) == IF s = <<>> THEN 0 ELSE Head(s) + SumSeq(Tail(s))

RECURSIVE MaxSeq(_)
MaxSeq(s) == IF Len(s) = 1 THEN s[1] ELSE Max(Head(s), MaxSeq(Tail(s)))

\* Python slice s[-n:]
LastN(s, n) == IF Len(s) <= n THEN s ELSE SubSeq(s, Len(s) - n + 1, Len(s))

\* datetime.now().hour and datetime.now().weekday() (Monday = 0)
Hour(t) == (t \div 3600) % 24
Weekday(t) == (t \div 86400) % 7

\* ------------------------------------------------------------------------
\* VolatilityCalculator
\* ------------------------------------------------------------------------

\* mutant: a plain list, nothing is evicted
DequeAppend_Unbounded(dq, x) == Append(dq, x)

\* collections.deque(maxlen=1000).append
DequeAppend(dq, x) ==
    LET a == Append(dq, x)
    IN IF Len(a) > PriceHistoryMaxLen THEN Tail(a) ELSE a

\* volatility * sqrt(dt) with the market-hours multiplier
HourVolPPB(hour) ==
    IF 2 <= hour /\ hour <= 6 THEN (VolSqrtDtPPB * 15) \div 10
    ELSE IF 14 <= hour /\ hour <= 18 THEN (VolSqrtDtPPB * 12) \div 10
    ELSE VolSqrtDtPPB

\* price_change = current_price * (drift*dt + volatility*sqrt(dt)*shock)
PriceChange(price, shock, t) ==
    (price * ((DriftDtPPB + HourVolPPB(Hour(t)) * shock) \div 1000)) \div 1000000

\* mutant: the new price is not floored
UpdatePrice_NoFloor(f, shock, t) ==
    LET price_change == PriceChange(f.price, shock, t)
        new_price == f.price + price_change
    IN [history |-> DequeAppend(f.history,
                       [price |-> new_price, timestamp |-> t, change |-> price_change]),
        price |-> new_price,
        last_update |-> t]

\* _update_price on the feed state f = [history, price, last_update];
\* shock is random_shock after the fat-tail multiplication
UpdatePrice(f, shock, t) ==
    LET price_change == PriceChange(f.price, shock, t)
        new_price == Max(f.price + price_change, PriceFloor)
    IN [history |-> DequeAppend(f.history,
                       [price |-> new_price, timestamp |-> t, change |-> price_change]),
        price |-> new_price,
        last_update |-> t]

\* VolatilityCalculator.__init__
NewFeed(t) == [history |-> <<>>, price |-> BtcStartingPrice, last_update |-> t]

\* simple returns between consecutive points, in ppm
Returns(pts) ==
    [i \in 1..(Len(pts) - 1) |->
        ((pts[i + 1].price - pts[i].price) * 1000000) \div pts[i].price]

\* np.std(returns) * np.sqrt(365 * 24 * 60), in ppm
AnnualizedStd(rets) ==
    LET n == Len(rets)
        s1 == SumSeq(rets)
        s2 == SumSeq([i \in 1..n |-> rets[i] * rets[i]])
    IN (Isqrt(n * s2 - s1 * s1) * AnnualFactor) \div n

\* mutant: points stamped later than the call are left out as well
GetPriceHistory_UpToNow(hist, minutes, t) ==
    LET InWindow(p) == p.timestamp > t - minutes * 60 /\ p.timestamp <= t
    IN SelectSeq(hist, InWindow)

\* get_price_history(minutes)
GetPriceHistory(hist, minutes, t) ==
    LET InWindow(p) == p.timestamp > t - minutes * 60
    IN SelectSeq(hist, InWindow)

\* mutant: without the guard on the number of retained points
GetCurrentVolatility_NoColdStart(hist, t) ==
    LET InWindow(p) == p.timestamp > t - VolatilityWindowMinutes * 60
        recent_prices == SelectSeq(hist, InWindow)
    IN IF Len(recent_prices) < 2 THEN 0
       ELSE AnnualizedStd(Returns(recent_prices))

\* get_current_volatility
GetCurrentVolatility(hist, t) ==
    IF Len(hist) < 10 THEN 0
    ELSE LET InWindow(p) == p.timestamp > t - VolatilityWindowMinutes * 60
             recent_prices == SelectSeq(hist, InWindow)
         IN IF Len(recent_prices) < 2 THEN 0
            ELSE AnnualizedStd(Returns(recent_prices))

\* the block starts range(0, len - 10, 10), 1-based
BlockStarts(n) == {i \in 1..n : (i - 1) % 10 = 0 /\ i - 1 < n - 10}

\* historical_vols of get_volatility_percentile, as a bag indexed by block start
HistoricalVols(hist, lookback_minutes, t) ==
    LET cutoff == t - lookback_minutes * 60
        kept == {i \in BlockStarts(Len(hist)) : ~(hist[i].timestamp < cutoff)}
    IN [i \in kept |-> AnnualizedStd(Returns(SubSeq(hist, i, i + 9)))]

\* mutant: without the default for an empty sample
GetVolatilityPercentile_NoDefault(hist, lookback_minutes, t) ==
    LET current_vol == GetCurrentVolatility(hist, t)
        vols == HistoricalVols(hist, lookback_minutes, t)
        below == {i \in DOMAIN vols : vols[i] < current_vol}
    IN IF DOMAIN vols = {} THEN 0
       ELSE (Cardinality(below) * 10000) \div Cardinality(DOMAIN vols)

\* get_volatility_percentile, in hundredths of a percent
GetVolatilityPercentile(hist, lookback_minutes, t) ==
    LET current_vol == GetCurrentVolatility(hist, t)
        vols == HistoricalVols(hist, lookback_minutes, t)
        below == {i \in DOMAIN vols : vols[i] < current_vol}
    IN IF DOMAIN vols = {} THEN 5000
       ELSE (Cardinality(below) * 10000) \div Cardinality(DOMAIN vols)

\* calculate_slippage, in thousandths of a basis point
CalculateSlippage(hist, order_size, t) ==
    LET volatility == GetCurrentVolatility(hist, t)
        base_slippage == 5000
        size_impact == Min(order_size \div 100, 500)
        volatility_impact == Min(volatility, 20000)
        time_impact == IF 2 <= Hour(t) /\ Hour(t) <= 6 THEN 5000 ELSE 0
    IN base_slippage + size_impact + volatility_impact + time_impact

\* ------------------------------------------------------------------------
\* Messages and orders
\* ------------------------------------------------------------------------
\* A stream message / request body is a mapping of field names to strings.
\* It is encoded as a record: wrapped says whether the key 'orderData' is
\* present, json_ok whether that payload is valid JSON, present which order
\* fields the mapping (or the JSON object) holds, and each field's text is
\* kept with what the conversions make of it: quantity and price as
\* [num, v] (float() succeeds with value v), timestamp as [iso, v]
\* (fromisoformat succeeds with time v).
OrderFields ==
    {"orderId", "userId", "symbol", "side", "quantity", "price", "orderType", "timestamp"}

Num(v) == [num |-> TRUE, v |-> v]
NotNum == [num |-> FALSE, v |-> 0]
Iso(v) == [iso |-> TRUE, v |-> v]
NotIso == [iso |-> FALSE, v |-> 0]

DirectFields(id, user, qty, price, ts) ==
    [wrapped |-> FALSE, json_ok |-> TRUE, present |-> OrderFields,
     orderId |-> id, userId |-> user, symbol |-> "BTC-USD", side |-> "buy",
     quantity |-> qty, price |-> price, orderType |-> "limit", timestamp |-> ts]

WrappedFields(id, user, qty, price, ts) ==
    [DirectFields(id, user, qty, price, ts) EXCEPT !.wrapped = TRUE]

\* Order(...) of analytics_models.py
Order(od) ==
    [orderId |-> od.orderId, userId |-> od.userId, symbol |-> od.symbol,
     side |-> od.side, quantity |-> od.quantity.v, price |-> od.price.v,
     orderType |-> od.orderType, timestamp |-> od.timestamp.v]

\* mutant: the timestamp text is taken without being parsed
ParseSucceeds_AnyTimestamp(od) ==
    IF od.wrapped
    THEN /\ od.json_ok
         /\ od.present = OrderFields
         /\ od.quantity.num
         /\ od.price.num
    ELSE /\ od.present = OrderFields
         /\ od.quantity.num
         /\ od.price.num

\* _parse_order_data: TRUE when it returns an Order, FALSE when it raises
\* (JSONDecodeError, pydantic ValidationError, KeyError, ValueError)
ParseSucceeds(od) ==
    IF od.wrapped
    THEN /\ od.json_ok
         /\ od.present = OrderFields
         /\ od.quantity.num
         /\ od.price.num
         /\ od.timestamp.iso
    ELSE /\ od.present = OrderFields
         /\ od.quantity.num
         /\ od.price.num
         /\ od.timestamp.iso

\* ------------------------------------------------------------------------
\* RiskAnalyzer
\* ------------------------------------------------------------------------

\* RiskAnalysis(orderId=..., riskScore=0.0, verdict="ACCEPT", ...)
NewAnalysis(order, t) ==
    [orderId |-> order.orderId, userId |-> order.userId, symbol |-> order.symbol,
     riskScore |-> 0, verdict |-> "ACCEPT", volatility |-> 0, slippage |-> 0,
     reasons |-> <<>>, processingTimeMs |-> 0, timestamp |-> t]

AddRisk(analysis, points, reason) ==
    [analysis EXCEPT !.riskScore = @ + points, !.reasons = Append(@, reason)]

\* _analyze_volatility_risk
AnalyzeVolatilityRisk(analysis, hist, t) ==
    LET current_vol == GetCurrentVolatility(hist, t)
        vol_percentile == GetVolatilityPercentile(hist, 60, t)
        a0 == [analysis EXCEPT !.volatility = current_vol]
        a1 == IF current_vol > ExtremeVolatilityThreshold
              THEN AddRisk(a0, 30, "Extreme volatility detected")
              ELSE IF current_vol > HighVolatilityThreshold
                   THEN AddRisk(a0, 15, "High volatility detected")
                   ELSE a0
    IN IF vol_percentile > 9000
       THEN AddRisk(a1, 10, "Volatility in top 10% of recent range")
       ELSE a1

\* _analyze_slippage_risk; analysis.slippage = slippage_bps / 10000 is kept
\* in units of 1e-7
AnalyzeSlippageRisk(order, analysis, hist, t) ==
    LET order_size == order.quantity * order.price
        slippage_bps == CalculateSlippage(hist, order_size, t)
        a0 == [analysis EXCEPT !.slippage = slippage_bps]
    IN IF slippage_bps > 25000 THEN AddRisk(a0, 20, "High slippage risk")
       ELSE IF slippage_bps > 15000 THEN AddRisk(a0, 10, "Moderate slippage risk")
       ELSE a0

\* the zeroed profile _analyze_user_behavior creates for an unseen user
NewProfile(t) ==
    [total_orders |-> 0, total_volume |-> 0, recent_orders |-> <<>>,
     risk_events |-> 0, last_activity |-> t]

\* "if user_id not in self.user_analytics: self.user_analytics[user_id] = {...}"
EnsureProfile(ua, user_id, t) ==
    IF user_id \in DOMAIN ua THEN ua ELSE ua @@ (user_id :> NewProfile(t))

\* mutant: a user still counts as first-time on the second order
AnalyzeUserBehavior_FirstTwo(order, analysis, user_data, t) ==
    LET IsRecent(o) == o.timestamp > t - FrequencyWindowMinutes * 60
        recent_orders == SelectSeq(user_data.recent_orders, IsRecent)
        a1 == IF Len(recent_orders) > FrequencyLimit
              THEN AddRisk(analysis, 25, "High order frequency")
              ELSE analysis
        order_size == order.quantity * order.price
        large == /\ user_data.total_orders > 0
                 /\ order_size * user_data.total_orders > user_data.total_volume * 5
        a2 == IF large THEN AddRisk(a1, 15, "Unusually large order") ELSE a1
        a3 == IF user_data.total_orders <= 1 THEN AddRisk(a2, 5, "First-time user") ELSE a2
    IN [raised |-> large /\ user_data.total_volume = 0, analysis |-> a3]

\* _analyze_user_behavior after the profile lookup: [raised, analysis].
\* raised: the f-string divides order_size by an average of 0.0
AnalyzeUserBehavior(order, analysis, user_data, t) ==
    LET IsRecent(o) == o.timestamp > t - FrequencyWindowMinutes * 60
        recent_orders == SelectSeq(user_data.recent_orders, IsRecent)
        a1 == IF Len(recent_orders) > FrequencyLimit
              THEN AddRisk(analysis, 25, "High order frequency")
              ELSE analysis
        order_size == order.quantity * order.price
        \* order_size > (total_volume / total_orders) * 5
        large == /\ user_data.total_orders > 0
                 /\ order_size * user_data.total_orders > user_data.total_volume * 5
        a2 == IF large THEN AddRisk(a1, 15, "Unusually large order") ELSE a1
        a3 == IF user_data.total_orders = 0 THEN AddRisk(a2, 5, "First-time user") ELSE a2
    IN [raised |-> large /\ user_data.total_volume = 0, analysis |-> a3]

\* _analyze_market_conditions: [raised, analysis].
\* raised: the f-string divides max_recent_change by an order price of 0
AnalyzeMarketConditions(order, analysis, hist, t) ==
    LET current_hour == Hour(t)
        a1 == IF current_hour < 9 \/ current_hour > 16
              THEN AddRisk(analysis, 5, "Trading outside market hours - reduced liquidity")
              ELSE analysis
        a2 == IF Weekday(t) >= 5
              THEN AddRisk(a1, 10, "Weekend trading - limited market oversight")
              ELSE a1
        price_history == GetPriceHistory(hist, 5, t)
        last10 == LastN(price_history, 10)
        recent_changes == [i \in 1..Len(last10) |-> Abs(last10[i].change)]
        \* max_recent_change > order.price * 0.005
        moved == /\ Len(price_history) > 1
                 /\ MaxSeq(recent_changes) * 1000 > order.price * 5
        a3 == IF moved THEN AddRisk(a2, 10, "Recent large price movement") ELSE a2
    IN [raised |-> moved /\ order.price = 0, analysis |-> a3]

\* mutant: the thresholds compared with > instead of >=
DetermineVerdict_Strict(analysis) ==
    LET verdict == IF analysis.riskScore > RejectThreshold THEN "REJECT"
                   ELSE IF analysis.riskScore > WarnThreshold THEN "WARN"
                   ELSE "ACCEPT"
        summary == IF verdict = "REJECT" THEN "High risk score"
                   ELSE IF verdict = "WARN" THEN "Moderate risk score"
                   ELSE "Low risk score"
    IN [analysis EXCEPT !.verdict = verdict, !.reasons = <<summary>> \o @]

\* mutant: the summary is appended after the component reasons
DetermineVerdict_SummaryLast(analysis) ==
    LET verdict == IF analysis.riskScore >= RejectThreshold THEN "REJECT"
                   ELSE IF analysis.riskScore >= WarnThreshold THEN "WARN"
                   ELSE "ACCEPT"
        summary == IF verdict = "REJECT" THEN "High risk score"
                   ELSE IF verdict = "WARN" THEN "Moderate risk score"
                   ELSE "Low risk score"
    IN [analysis EXCEPT !.verdict = verdict, !.reasons = Append(@, summary)]

\* _determine_verdict
DetermineVerdict(analysis) ==
    LET verdict == IF analysis.riskScore >= RejectThreshold THEN "REJECT"
                   ELSE IF analysis.riskScore >= WarnThreshold THEN "WARN"
                   ELSE "ACCEPT"
        summary == IF verdict = "REJECT" THEN "High risk score"
                   ELSE IF verdict = "WARN" THEN "Moderate risk score"
                   ELSE "Low risk score"
    IN [analysis EXCEPT !.verdict = verdict, !.reasons = <<summary>> \o @]

\* the summary record _update_user_analytics appends
OrderSummary(order, analysis) ==
    [orderId |-> order.orderId, timestamp |-> order.timestamp,
     size |-> order.quantity * order.price, riskScore |-> analysis.riskScore]

\* mutant: the slice keeps the first 100 entries, dropping the newest
UpdateProfile_KeepOldest(user_data, order, analysis, t) ==
    LET appended == Append(user_data.recent_orders, OrderSummary(order, analysis))
    IN [total_orders |-> user_data.total_orders + 1,
        total_volume |-> user_data.total_volume + order.quantity * order.price,
        last_activity |-> t,
        recent_orders |-> IF Len(appended) > RecentOrdersMaxLen
                          THEN SubSeq(appended, 1, RecentOrdersMaxLen)
                          ELSE appended,
        risk_events |-> IF analysis.verdict \in {"REJECT", "WARN"}
                        THEN user_data.risk_events + 1
                        ELSE user_data.risk_events]

\* mutant: the cumulative volume is overwritten with the order's notional
UpdateProfile_LostVolume(user_data, order, analysis, t) ==
    LET appended == Append(user_data.recent_orders, OrderSummary(order, analysis))
    IN [total_orders |-> user_data.total_orders + 1,
        total_volume |-> order.quantity * order.price,
        last_activity |-> t,
        recent_orders |-> IF Len(appended) > RecentOrdersMaxLen
                          THEN LastN(appended, RecentOrdersMaxLen)
                          ELSE appended,
        risk_events |-> IF analysis.verdict \in {"REJECT", "WARN"}
                        THEN user_data.risk_events + 1
                        ELSE user_data.risk_events]

\* mutant: every order counts as a risk event
UpdateProfile_AlwaysRiskEvent(user_data, order, analysis, t) ==
    LET appended == Append(user_data.recent_orders, OrderSummary(order, analysis))
    IN [total_orders |-> user_data.total_orders + 1,
        total_volume |-> user_data.total_volume + order.quantity * order.price,
        last_activity |-> t,
        recent_orders |-> IF Len(appended) > RecentOrdersMaxLen
                          THEN LastN(appended, RecentOrdersMaxLen)
                          ELSE appended,
        risk_events |-> user_data.risk_events + 1]

\* _update_user_analytics on the user's profile
UpdateProfile(user_data, order, analysis, t) ==
    LET appended == Append(user_data.recent_orders, OrderSummary(order, analysis))
    IN [total_orders |-> user_data.total_orders + 1,
        total_volume |-> user_data.total_volume + order.quantity * order.price,
        last_activity |-> t,
        recent_orders |-> IF Len(appended) > RecentOrdersMaxLen
                          THEN LastN(appended, RecentOrdersMaxLen)
                          ELSE appended,
        risk_events |-> IF analysis.verdict \in {"REJECT", "WARN"}
                        THEN user_data.risk_events + 1
                        ELSE user_data.risk_events]

\* _update_user_analytics
UpdateUserAnalytics(ua, order, analysis, t) ==
    [ua EXCEPT ![order.userId] = UpdateProfile(@, order, analysis, t)]

NoAnalysis ==
    [orderId |-> 0, userId |-> "", symbol |-> "", riskScore |-> 0, verdict |-> "",
     volatility |-> 0, slippage |-> 0, reasons |-> <<>>, processingTimeMs |-> 0,
     timestamp |-> 0]

Raised(err, ua) == [ok |-> FALSE, error |-> err, analysis |-> NoAnalysis, ua |-> ua]

\* mutant: the user's profile is looked up (and created) before the parse
AnalyzeOrder_ProfileFirst(order_data, ua, hist, t) ==
    LET ua0 == EnsureProfile(ua, order_data.userId, t)
    IN IF ~ParseSucceeds(order_data) THEN Raised("parse", ua0)
       ELSE
         LET order == Order(order_data)
             a0 == NewAnalysis(order, t)
             a1 == AnalyzeVolatilityRisk(a0, hist, t)
             a2 == AnalyzeSlippageRisk(order, a1, hist, t)
             r3 == AnalyzeUserBehavior(order, a2, ua0[order.userId], t)
             r4 == AnalyzeMarketConditions(order, r3.analysis, hist, t)
             a5 == DetermineVerdict(r4.analysis)
         IN IF r3.raised THEN Raised("compute", ua0)
            ELSE IF r4.raised THEN Raised("compute", ua0)
            ELSE [ok |-> TRUE, error |-> "", analysis |-> a5,
                  ua |-> UpdateUserAnalytics(ua0, order, a5, t)]

\* analyze_order(order_data) called at time t with tracker ua and price
\* window hist: [ok, error, analysis, ua], ua being the tracker it leaves.
\* The coroutine holds no await that suspends, so it runs in one step of the
\* event loop.
AnalyzeOrder(order_data, ua, hist, t) ==
    IF ~ParseSucceeds(order_data) THEN Raised("parse", ua)
    ELSE
      LET order == Order(order_data)
          a0 == NewAnalysis(order, t)
          a1 == AnalyzeVolatilityRisk(a0, hist, t)
          a2 == AnalyzeSlippageRisk(order, a1, hist, t)
          ua1 == EnsureProfile(ua, order.userId, t)
          r3 == AnalyzeUserBehavior(order, a2, ua1[order.userId], t)
          r4 == AnalyzeMarketConditions(order, r3.analysis, hist, t)
          a5 == DetermineVerdict(r4.analysis)
      IN IF r3.raised THEN Raised("compute", ua1)
         ELSE IF r4.raised THEN Raised("compute", ua1)
         ELSE [ok |-> TRUE, error |-> "", analysis |-> a5,
               ua |-> UpdateUserAnalytics(ua1, order, a5, t)]

\* ------------------------------------------------------------------------
\* RedisConsumer and the Redis it talks to
\* ------------------------------------------------------------------------

\* analysis_key = f"analysis:{analysis.orderId}"
AnalysisKey(order_id) == <<"analysis", order_id>>

\* analysis_data of _store_analysis_result; with decode_responses the store
\* keeps every value as text: numbers as numeric strings, the timestamp in
\* ISO format, the reasons as one JSON string
AnalysisData(msg_id, analysis) ==
    [orderId |-> analysis.orderId, userId |-> analysis.userId,
     symbol |-> analysis.symbol, verdict |-> analysis.verdict,
     riskScore |-> Num(analysis.riskScore), volatility |-> Num(analysis.volatility),
     slippage |-> Num(analysis.slippage), reasons |-> [json |-> analysis.reasons],
     processingTimeMs |-> Num(analysis.processingTimeMs),
     timestamp |-> Iso(analysis.timestamp), messageId |-> msg_id]

\* mutant: the record is keyed by the stream message id
StoreKey_ByMessage(msg_id, analysis) == AnalysisKey(msg_id)

\* the key _store_analysis_result(msg_id, analysis) writes under
StoreKey(msg_id, analysis) == AnalysisKey(analysis.orderId)

\* Redis HSET key mapping: a new key has no expiry, an existing one keeps its own
Hset(st, key, data) ==
    IF key \in DOMAIN st THEN [st EXCEPT ![key].data = data]
    ELSE st @@ (key :> [data |-> data, ttl |-> 0])

\* Redis EXPIRE key seconds
Expire(st, key, seconds) ==
    IF key \in DOMAIN st THEN [st EXCEPT ![key].ttl = seconds] ELSE st

\* get_analysis_result: HGETALL, then the numeric fields and the reasons
\* parsed back; found is FALSE for the empty mapping of an absent key
GetAnalysisResult(st, order_id) ==
    IF AnalysisKey(order_id) \in DOMAIN st
    THEN LET d == st[AnalysisKey(order_id)].data
         IN [found |-> TRUE, orderId |-> d.orderId, userId |-> d.userId,
             verdict |-> d.verdict, riskScore |-> d.riskScore.v,
             volatility |-> d.volatility.v, slippage |-> d.slippage.v,
             reasons |-> d.reasons.json, processingTimeMs |-> d.processingTimeMs.v,
             messageId |-> d.messageId]
    ELSE [found |-> FALSE, orderId |-> 0, userId |-> "", verdict |-> "", riskScore |-> 0,
          volatility |-> 0, slippage |-> 0, reasons |-> <<>>, processingTimeMs |-> 0,
          messageId |-> 0]

\* what is recorded about the processing of one stream message
NewProc ==
    [delivered |-> 0, outcome |-> "none", hset |-> "none", expire |-> "none",
     acks |-> 0, acked |-> FALSE]

\* the caller of the latest analyze_order call, its input and its outcome
CallRecord(by, od, r) ==
    [by |-> by, order_data |-> od, ok |-> r.ok, error |-> r.error, analysis |-> r.analysis]

\* the history log after an analyze_order call with outcome r
LogAfter(log, od, r) ==
    IF r.ok
    THEN [log EXCEPT ![r.analysis.userId] = Append(@, OrderSummary(Order(od), r.analysis))]
    ELSE log

\* XREADGROUP ... '>' count=10: the next entries never delivered to the group
NewMessages(msgs, last) ==
    [k \in 1..Min(Len(msgs) - last, BatchCount) |-> last + k]

SeqToSet(q) == {q[k] : k \in 1..Len(q)}

\* ------------------------------------------------------------------------
\* State
\* ------------------------------------------------------------------------
VARIABLES
    now,             \* the wall clock, datetime.now()
    feed,            \* VolatilityCalculator: price_history, current_price, last_update
    user_analytics,  \* RiskAnalyzer.user_analytics: user id -> profile
    last_call,       \* the latest analyze_order call: its caller, input and outcome
    order_log,       \* history: per user, every summary ever appended, in order
    append_log,      \* history: every PricePoint ever appended, in order
    n_burst,         \* history: number of burst orders analyzed
    n_calls,         \* history: number of other analyze_order calls
    c_pc,            \* consumer task: the await it is suspended at
    running,         \* RedisConsumer.running
    stream,          \* Redis: the entries of orders:stream, entry k has id k
    last_delivered,  \* Redis: the group's last-delivered id
    pel,             \* Redis: the group's pending entries (delivered, not acknowledged)
    batch,           \* consumer task: the ids of the polled batch still to finish
    cur,             \* consumer task: the analysis of the message being stored
    store,           \* Redis: the hashes written by the consumer, by key
    faults,          \* history: number of Redis calls that raised
    proc,            \* history: per stream entry, what its processing did
    polls,           \* history: parity of the number of polls answered
    group,           \* Redis: whether the consumer group exists on the stream
    run_log,         \* history: the events of the consumer's run so far
    vol_call,        \* the latest read of the calculator: its arguments and results
    ticker           \* the feed task and VolatilityCalculator.running (followed in SpecFeed)

avars == <<user_analytics, last_call, order_log, n_burst, n_calls>>

cvars == <<c_pc, running, stream, last_delivered, pel, batch, cur, store, faults, proc, polls,
           group, run_log>>

vars == <<now, feed, ticker, append_log, vol_call, avars, cvars>>

Users == {"u1", "u2"}

NoCall == [by |-> "none", order_data |-> DirectFields(0, "", NotNum, NotNum, NotIso),
           ok |-> FALSE, error |-> "", analysis |-> NoAnalysis]

\* the feed task created by lifespan and not yet run; running is False
\* from __init__.  pc: where the task is; attempts, faults: the calls of
\* _update_price so far and those that raised; last: how the latest one
\* ended; stopped: whether stop_feed() was called, before the task's first
\* step ("early") or later ("yes")
NoTicker ==
    [pc |-> "created", running |-> FALSE, attempts |-> 0, faults |-> 0,
     last |-> "none", stopped |-> "no"]

\* no read of the calculator yet
NoVolCall ==
    [called |-> FALSE, history |-> <<>>, t |-> 0, lookback |-> 0,
     volatility |-> 0, percentile |-> 0, slippage |-> <<>>, price_history |-> <<>>]

\* RedisConsumer.__init__, an empty stream and an empty store
InitConsumer ==
    /\ c_pc = "idle"
    /\ running = FALSE
    /\ stream = <<>>
    /\ last_delivered = 0
    /\ pel = {}
    /\ batch = <<>>
    /\ cur = NoAnalysis
    /\ store = <<>>
    /\ faults = 0
    /\ proc = <<>>
    /\ polls = 0
    /\ run_log = {}

\* ------------------------------------------------------------------------
\* Reachable starting states of the analyzer
\* ------------------------------------------------------------------------
\* Monday 10:00 and Saturday 03:00
StartTimes == {10 * 3600, 5 * 86400 + 3 * 3600}

\* shock sequences of the ticks that filled the price window: no tick yet,
\* a calm market, a calm market ending in large moves
CalmShocks == [i \in 1..12 |-> 0]
TurbulentShocks == [i \in 1..12 |-> IF i <= 10 THEN 0 ELSE IF i % 2 = 1 THEN 4 ELSE -4]
ShockSeqs == {<<>>, CalmShocks, TurbulentShocks}

\* the feed f after the ticks lo..hi of a run of one tick per second with the
\* given shocks, tick i being made at time t0 + i; the run is split in two
\* halves and the first is worked out before the second is begun
RECURSIVE FeedRun(_, _, _, _, _)
FeedRun(f, shocks, lo, hi, t0) ==
    IF lo > hi THEN f
    ELSE IF lo = hi THEN UpdatePrice(f, shocks[lo], t0 + lo)
    ELSE LET mid == (lo + hi) \div 2
             half == FeedRun(f, shocks, lo, mid, t0)
         IN IF half.last_update = t0 + mid THEN FeedRun(half, shocks, mid + 1, hi, t0)
            ELSE half

\* the feed after one tick per second with the given shocks, the last at t
FeedAfter(shocks, t) ==
    FeedRun(NewFeed(t - Len(shocks)), shocks, 1, Len(shocks), t - Len(shocks))

\* the k-th order of a burst of equal orders of user u1
BurstOrder(k, t) == DirectFields(k, "u1", Num(1), Num(100), Iso(t))

\* request bodies / message fields submitted at time t
GoodInputs(t) ==
    {DirectFields(201, u, Num(q), Num(100), Iso(t)) : u \in Users, q \in {1, 10}}
    \cup {WrappedFields(202, "u2", Num(1), Num(100), Iso(t)),
          DirectFields(203, "u1", Num(1), Num(100), Iso(t - 600)),
          DirectFields(204, "u1", Num(0), Num(100), Iso(t)),
          DirectFields(205, "u1", Num(1), Num(0), Iso(t))}

BadInputs(t) ==
    {[DirectFields(301, "u1", Num(1), Num(100), Iso(t)) EXCEPT
          !.present = OrderFields \ {"price"}],
     DirectFields(302, "u1", NotNum, Num(100), Iso(t)),
     DirectFields(303, "u1", Num(1), NotNum, Iso(t)),
     DirectFields(304, "u1", Num(1), Num(100), NotIso),
     [WrappedFields(305, "u1", Num(1), Num(100), Iso(t)) EXCEPT !.json_ok = FALSE]}

Inputs(t) == GoodInputs(t) \cup BadInputs(t)

\* ------------------------------------------------------------------------
\* Actions
\* ------------------------------------------------------------------------

\* POST /analyze (main.py analyze_order): one analyze_order call; an
\* exception is returned as {"error": ...}
ManualAnalyze(od) ==
    LET r == AnalyzeOrder(od, user_analytics, feed.history, now)
    IN /\ user_analytics' = r.ua
       /\ last_call' = CallRecord("manual", od, r)
       /\ order_log' = LogAfter(order_log, od, r)
       /\ UNCHANGED <<now, feed, ticker, append_log, vol_call>>

\* random_shock of a tick, in standard deviations (after the fat-tail factor)
Shocks == {-4, 0, 4}

\* one iteration of start_btc_feed: _update_price, then the sleep of
\* price_update_interval_seconds during which the clock moves on
FeedTick(shock) ==
    /\ feed' = UpdatePrice(feed, shock, now)
    /\ append_log' = Append(append_log, feed'.history[Len(feed'.history)])
    /\ now' = now + 1

\* a client sends the next of a burst of equal orders of user u1
Burst(limit) ==
    /\ n_calls = 0
    /\ n_burst < limit
    /\ ManualAnalyze(BurstOrder(n_burst + 1, now))
    /\ n_burst' = n_burst + 1
    /\ UNCHANGED <<n_calls, cvars>>

\* a client sends any request body
Request(limit) ==
    /\ n_calls < limit
    /\ \E od \in Inputs(now) : ManualAnalyze(od)
    /\ n_calls' = n_calls + 1
    /\ UNCHANGED <<n_burst, cvars>>

\* ------------------------------------------------------------------------
\* SpecAnalyzer: the analyzer, from each state of the feed, on a burst of
\* up to MaxBurst equal orders of one user followed by any MaxAnalyses inputs
\* ------------------------------------------------------------------------
InitAnalyzer ==
    /\ now \in StartTimes
    /\ \E shocks \in ShockSeqs : feed = FeedAfter(shocks, now)
    /\ user_analytics = <<>>
    /\ order_log = [u \in Users |-> <<>>]
    /\ last_call = NoCall
    /\ append_log = <<>>
    /\ n_burst = 0
    /\ n_calls = 0
    /\ InitConsumer
    /\ group = FALSE
    /\ vol_call = NoVolCall
    /\ ticker = NoTicker

BurstRequest == Burst(MaxBurst)

AnalyzeRequest == Request(MaxAnalyses)

NextAnalyzer == BurstRequest \/ AnalyzeRequest

SpecAnalyzer == InitAnalyzer /\ [][NextAnalyzer]_vars

\* ------------------------------------------------------------------------
\* SpecHistory: a burst long enough to fill a user's recent-order history,
\* followed by any MaxLate inputs
\* ------------------------------------------------------------------------
InitHistory ==
    /\ now \in StartTimes
    /\ feed = NewFeed(now)
    /\ user_analytics = <<>>
    /\ order_log = [u \in Users |-> <<>>]
    /\ last_call = NoCall
    /\ append_log = <<>>
    /\ n_burst = 0
    /\ n_calls = 0
    /\ InitConsumer
    /\ group = FALSE
    /\ vol_call = NoVolCall
    /\ ticker = NoTicker

LongBurstRequest == Burst(MaxPrior)

LateRequest == Request(MaxLate)

NextHistory == LongBurstRequest \/ LateRequest

SpecHistory == InitHistory /\ [][NextHistory]_vars

\* ------------------------------------------------------------------------
\* SpecWindow: the feed alone, ticking past the capacity of the price
\* window; the market is rough for the first MaxRough ticks and calm after
\* ------------------------------------------------------------------------
InitWindow ==
    /\ now \in StartTimes
    /\ feed = NewFeed(now)
    /\ user_analytics = <<>>
    /\ order_log = [u \in Users |-> <<>>]
    /\ last_call = NoCall
    /\ append_log = <<>>
    /\ n_burst = 0
    /\ n_calls = 0
    /\ InitConsumer
    /\ group = FALSE
    /\ vol_call = NoVolCall
    /\ ticker = NoTicker

WindowTick ==
    /\ Len(append_log) < MaxTicks
    /\ \E shock \in (IF Len(append_log) < MaxRough THEN Shocks ELSE {0}) : FeedTick(shock)
    /\ UNCHANGED <<ticker, vol_call, avars, cvars>>

NextWindow == WindowTick

SpecWindow == InitWindow /\ [][NextWindow]_vars

\* ------------------------------------------------------------------------
\* Spec: the stream consumer, a producer adding entries to the stream and
\* clients of POST /analyze, all on one event loop.  Each consumer action is
\* the code the task runs from the return (or raise) of the Redis call it
\* awaits to its next await.  The clock and the price window stand still.
\* ------------------------------------------------------------------------

\* the outcome of a Redis call: it returns (ok) or raises a transport error.
\* Errors of a healthy connection are counted; once stop() has closed the
\* client a call may raise or (on a fresh connection) return, uncounted
Outcome(ok) ==
    /\ ~ok => (faults < MaxFaults \/ ~running)
    /\ faults' = IF ok \/ ~running THEN faults ELSE faults + 1

\* mutant: "while True:", the flag is never looked at
LoopHead_Forever(r) == "xreadgroup"

\* "while self.running:" of _consume_messages
LoopHead(r) == IF r THEN "xreadgroup" ELSE "done"

\* start_consuming up to "await self.redis_client.ping()"
StartConsuming ==
    /\ c_pc = "idle"
    /\ running' = TRUE
    /\ c_pc' = "ping"
    /\ UNCHANGED <<now, feed, ticker, append_log, vol_call, avars, stream, last_delivered, pel, batch, cur,
                   store, faults, proc, polls, group, run_log>>

\* ping returned: xgroup_create is awaited; ping raised: start_consuming raises
PingDone(ok) ==
    /\ c_pc = "ping"
    /\ Outcome(ok)
    /\ c_pc' = IF ok THEN "xgroup_create" ELSE "failed"
    /\ run_log' = IF ok THEN run_log \cup {"Connected"} ELSE run_log
    /\ UNCHANGED <<now, feed, ticker, append_log, vol_call, avars, running, stream, last_delivered, pel,
                   batch, cur, store, proc, polls, group>>

\* what XGROUP CREATE ... id='0' mkstream=True answers: the group is created,
\* or a ResponseError BUSYGROUP when it exists, or a transport error
GroupCreateResult(exists, ok) ==
    IF ~ok THEN "error" ELSE IF exists THEN "BUSYGROUP" ELSE "created"

\* mutant: BUSYGROUP is re-raised like any other error
GroupEnsured_CreatedOnly(res) == res = "created"

\* the try/except around xgroup_create: TRUE when start_consuming goes on
GroupEnsured(res) == res \in {"created", "BUSYGROUP"}

\* xgroup_create returned or raised BUSYGROUP: _consume_messages is entered;
\* it raised another error: start_consuming raises
GroupDone(ok) ==
    /\ c_pc = "xgroup_create"
    /\ Outcome(ok)
    /\ LET res == GroupCreateResult(group, ok)
       IN /\ group' = (group \/ res = "created")
          /\ c_pc' = IF GroupEnsured(res) THEN LoopHead(running) ELSE "failed"
          /\ run_log' = IF GroupEnsured(res) THEN run_log \cup {res, "Consuming"}
                        ELSE run_log \cup {res}
    /\ UNCHANGED <<now, feed, ticker, append_log, vol_call, avars, running, stream, last_delivered, pel,
                   batch, cur, store, proc, polls>>

\* mutant: a message that fails ends the work on its batch
ProcessNext_AbortBatch ==
    /\ c_pc = "process"
    /\ IF batch = <<>>
       THEN /\ c_pc' = LoopHead(running)
            /\ UNCHANGED <<batch, cur, proc, user_analytics, last_call, order_log>>
       ELSE LET msg_id == Head(batch)
                r == AnalyzeOrder(stream[msg_id], user_analytics, feed.history, now)
            IN /\ user_analytics' = r.ua
               /\ last_call' = CallRecord("consumer", stream[msg_id], r)
               /\ order_log' = LogAfter(order_log, stream[msg_id], r)
               /\ proc' = [proc EXCEPT ![msg_id].outcome = IF r.ok THEN "scored" ELSE r.error]
               /\ cur' = r.analysis
               /\ batch' = IF r.ok THEN batch ELSE <<>>
               /\ c_pc' = IF r.ok THEN "hset" ELSE "process"
    /\ UNCHANGED <<now, feed, ticker, append_log, vol_call, n_burst, n_calls, running, stream,
                   last_delivered, pel, store, faults, polls, group, run_log>>

\* the top of the loop body of _process_messages; the task is running
\* here, not suspended.  An exhausted batch returns to _consume_messages;
\* otherwise _process_single_message calls analyze_order on the next
\* message: scored, its result goes to _store_analysis_result, which awaits
\* hset; raised, the error is logged, the message stays unacknowledged and
\* the loop goes on
ProcessNext ==
    /\ c_pc = "process"
    /\ IF batch = <<>>
       THEN /\ c_pc' = LoopHead(running)
            /\ UNCHANGED <<batch, cur, proc, user_analytics, last_call, order_log>>
       ELSE LET msg_id == Head(batch)
                r == AnalyzeOrder(stream[msg_id], user_analytics, feed.history, now)
            IN /\ user_analytics' = r.ua
               /\ last_call' = CallRecord("consumer", stream[msg_id], r)
               /\ order_log' = LogAfter(order_log, stream[msg_id], r)
               /\ proc' = [proc EXCEPT ![msg_id].outcome = IF r.ok THEN "scored" ELSE r.error]
               /\ cur' = r.analysis
               /\ batch' = IF r.ok THEN batch ELSE Tail(batch)
               /\ c_pc' = IF r.ok THEN "hset" ELSE "process"
    /\ UNCHANGED <<now, feed, ticker, append_log, vol_call, n_burst, n_calls, running, stream,
                   last_delivered, pel, store, faults, polls, group, run_log>>

\* xreadgroup returned the entries not yet delivered to the group (none after
\* the block timeout), which Redis has put on the pending list; or it raised
\* and the loop sleeps
ReadDone(ok) ==
    /\ c_pc = "xreadgroup"
    /\ Outcome(ok)
    /\ polls' = 1 - polls
    /\ IF ok
       THEN LET new == NewMessages(stream, last_delivered)
            IN /\ last_delivered' = last_delivered + Len(new)
               /\ pel' = pel \cup SeqToSet(new)
               /\ proc' = [k \in 1..Len(proc) |->
                              IF k \in SeqToSet(new)
                              THEN [proc[k] EXCEPT !.delivered = @ + 1]
                              ELSE proc[k]]
               /\ batch' = new
               /\ c_pc' = IF new = <<>> THEN LoopHead(running) ELSE "process"
       ELSE /\ c_pc' = "sleep"
            /\ UNCHANGED <<last_delivered, pel, batch, proc>>
    /\ UNCHANGED <<now, feed, ticker, append_log, vol_call, avars, running, stream, cur, store, group,
                   run_log>>

\* mutant: the handler of a poll error leaves the loop after its sleep
SleepDone_Break ==
    /\ c_pc = "sleep"
    /\ c_pc' = "done"
    /\ UNCHANGED <<now, feed, ticker, append_log, vol_call, avars, running, stream, last_delivered,
                   pel, batch, cur, store, faults, proc, polls, group, run_log>>

\* asyncio.sleep(1) after a failed poll is over
SleepDone ==
    /\ c_pc = "sleep"
    /\ c_pc' = LoopHead(running)
    /\ UNCHANGED <<now, feed, ticker, append_log, vol_call, avars, running, stream, last_delivered, pel,
                   batch, cur, store, faults, proc, polls, group, run_log>>

\* hset returned: expire is awaited; hset raised: _store_analysis_result logs
\* the error and returns, and _process_messages goes on to xack
HsetDone(ok) ==
    /\ c_pc = "hset"
    /\ Outcome(ok)
    /\ LET msg_id == Head(batch)
       IN IF ok
          THEN /\ store' = Hset(store, StoreKey(msg_id, cur), AnalysisData(msg_id, cur))
               /\ proc' = [proc EXCEPT ![msg_id].hset = "ok"]
               /\ c_pc' = "expire"
          ELSE /\ store' = store
               /\ proc' = [proc EXCEPT ![msg_id].hset = "raised", ![msg_id].acks = @ + 1]
               /\ c_pc' = "xack"
    /\ UNCHANGED <<now, feed, ticker, append_log, vol_call, avars, running, stream, last_delivered, pel,
                   batch, cur, polls, group, run_log>>

\* expire returned or raised (logged by _store_analysis_result): either way
\* _process_messages goes on to xack
ExpireDone(ok) ==
    /\ c_pc = "expire"
    /\ Outcome(ok)
    /\ LET msg_id == Head(batch)
       IN /\ store' = IF ok THEN Expire(store, StoreKey(msg_id, cur), StoreTtlSeconds)
                      ELSE store
          /\ proc' = [proc EXCEPT ![msg_id].expire = IF ok THEN "ok" ELSE "raised",
                                  ![msg_id].acks = @ + 1]
    /\ c_pc' = "xack"
    /\ UNCHANGED <<now, feed, ticker, append_log, vol_call, avars, running, stream, last_delivered, pel,
                   batch, cur, polls, group, run_log>>

\* xack returned (the entry leaves the pending list) or raised (logged, the
\* entry stays pending); the loop over the batch goes on
XackDone(ok) ==
    /\ c_pc = "xack"
    /\ Outcome(ok)
    /\ LET msg_id == Head(batch)
       IN /\ pel' = IF ok THEN pel \ {msg_id} ELSE pel
          /\ proc' = [proc EXCEPT ![msg_id].acked = ok]
    /\ batch' = Tail(batch)
    /\ c_pc' = "process"
    /\ UNCHANGED <<now, feed, ticker, append_log, vol_call, avars, running, stream, last_delivered, cur,
                   store, polls, group, run_log>>

\* entries a producer adds to the stream
StreamInputs(t) ==
    {DirectFields(201, "u1", Num(1), Num(100), Iso(t)),
     WrappedFields(202, "u2", Num(1), Num(100), Iso(t))} \cup BadInputs(t)

\* a producer's XADD of one of the given entries
XAddFrom(inputs, limit) ==
    /\ Len(stream) < limit
    /\ \E fields \in inputs :
          /\ stream' = Append(stream, fields)
          /\ proc' = Append(proc, NewProc)
    /\ UNCHANGED <<now, feed, ticker, append_log, vol_call, avars, c_pc, running, last_delivered, pel, batch,
                   cur, store, faults, polls, group, run_log>>

XAdd == XAddFrom(StreamInputs(now), MaxStream)

\* request bodies the clients send while the consumer runs
ApiInputs(t) == {DirectFields(201, "u1", Num(10), Num(100), Iso(t))}

\* a client's POST /analyze; the event loop serves it only while the
\* consumer task is suspended at an await
ApiRequest ==
    /\ c_pc # "process"
    /\ n_calls < MaxManual
    /\ \E od \in ApiInputs(now) : ManualAnalyze(od)
    /\ n_calls' = n_calls + 1
    /\ UNCHANGED <<n_burst, cvars>>

Init ==
    /\ now = 10 * 3600
    /\ feed = NewFeed(now)
    /\ user_analytics = <<>>
    /\ order_log = [u \in Users |-> <<>>]
    /\ last_call = NoCall
    /\ append_log = <<>>
    /\ n_burst = 0
    /\ n_calls = 0
    /\ InitConsumer
    /\ group = FALSE
    /\ vol_call = NoVolCall
    /\ ticker = NoTicker

ConsumerStep ==
    \/ StartConsuming
    \/ \E ok \in BOOLEAN : PingDone(ok)
    \/ \E ok \in BOOLEAN : GroupDone(ok)
    \/ \E ok \in BOOLEAN : ReadDone(ok)
    \/ ProcessNext
    \/ SleepDone
    \/ \E ok \in BOOLEAN : HsetDone(ok)
    \/ \E ok \in BOOLEAN : ExpireDone(ok)
    \/ \E ok \in BOOLEAN : XackDone(ok)

Next == ConsumerStep \/ XAdd \/ ApiRequest

Spec == Init /\ [][Next]_vars

\* the event loop resumes the consumer task whenever the call it awaits is over
FairSpec == Spec /\ WF_vars(ConsumerStep)

\* ------------------------------------------------------------------------
\* SpecLifecycle: a run of the consumer from start to stop.  Redis may hold
\* the consumer group of an earlier run.  The run is ended by stop() on its
\* own or by the shutdown of the service, which cancels the consumer task
\* and calls stop().
\* ------------------------------------------------------------------------

\* the states in which the run is over
Ended == {"failed", "done", "cancelled"}

\* RedisConsumer.stop() up to its await: the flag is cleared and the client
\* closed; the consumer task is left suspended where it is
Stop ==
    /\ running
    /\ c_pc \notin {"idle", "process"}
    /\ running' = FALSE
    /\ run_log' = run_log \cup {"stop"}
    /\ UNCHANGED <<now, feed, ticker, append_log, vol_call, avars, c_pc, stream, last_delivered,
                   pel, batch, cur, store, faults, proc, polls, group>>

\* where the CancelledError thrown into the consumer task at the await it
\* is suspended at ends up.  It is not an Exception: of the handlers on its
\* way only "except asyncio.CancelledError: break" of _consume_messages
\* catches it, and that try covers the poll and _process_messages, not the
\* sleep in its own except clause nor start_consuming
AfterCancel(pc) ==
    IF pc \in Ended THEN pc
    ELSE IF pc \in {"xreadgroup", "hset", "expire", "xack"} THEN "done"
    ELSE "cancelled"

\* the shutdown half of lifespan: consumer_task.cancel(), then stop() up to
\* its await; the task gets the CancelledError when the event loop next
\* runs it, before anything else it awaits can complete
Shutdown ==
    /\ c_pc # "process"
    /\ c_pc \notin Ended \/ running
    /\ running' = FALSE
    /\ c_pc' = AfterCancel(c_pc)
    /\ batch' = <<>>
    /\ run_log' = run_log \cup {"shutdown"}
    /\ UNCHANGED <<now, feed, ticker, append_log, vol_call, avars, stream, last_delivered, pel,
                   cur, store, faults, proc, polls, group>>

\* entries the producer adds during the run: a good order and a bad one
LifecycleInputs(t) ==
    {DirectFields(201, "u1", Num(1), Num(100), Iso(t)),
     DirectFields(302, "u1", NotNum, Num(100), Iso(t))}

LifecycleXAdd == XAddFrom(LifecycleInputs(now), MaxRunStream)

InitLifecycle ==
    /\ now = 10 * 3600
    /\ feed = NewFeed(now)
    /\ user_analytics = <<>>
    /\ order_log = [u \in Users |-> <<>>]
    /\ last_call = NoCall
    /\ append_log = <<>>
    /\ n_burst = 0
    /\ n_calls = 0
    /\ InitConsumer
    /\ group \in BOOLEAN
    /\ vol_call = NoVolCall
    /\ ticker = NoTicker

NextLifecycle == ConsumerStep \/ LifecycleXAdd \/ Stop \/ Shutdown

SpecLifecycle == InitLifecycle /\ [][NextLifecycle]_vars

\* the event loop resumes the consumer task whenever the call it awaits is over
FairLifecycle == SpecLifecycle /\ WF_vars(ConsumerStep)

\* ------------------------------------------------------------------------
\* SpecCalculator: reads of the volatility calculator.  The feed has run for
\* a while, ticks on, and may then be late with its next tick (its sleep of
\* price_update_interval_seconds, a blocked event loop, its error delay);
\* a reader then calls the calculator's functions.
\* ------------------------------------------------------------------------

\* a calm market of 24 ticks ending in large moves
LateShocks == [i \in 1..24 |-> IF i <= 21 THEN 0 ELSE IF i % 2 = 1 THEN 4 ELSE -4]

CalcShockSeqs == {<<>>, CalmShocks, TurbulentShocks, LateShocks}

\* lookback_minutes of get_volatility_percentile; 60 is the default
Lookbacks == {0, 1, 60}

\* order_size of calculate_slippage
Notionals == {0, 1000, 50000, 100000}

InitCalculator ==
    /\ now \in StartTimes
    /\ \E shocks \in CalcShockSeqs : feed = FeedAfter(shocks, now)
    /\ user_analytics = <<>>
    /\ order_log = [u \in Users |-> <<>>]
    /\ last_call = NoCall
    /\ append_log = <<>>
    /\ n_burst = 0
    /\ n_calls = 0
    /\ InitConsumer
    /\ group = FALSE
    /\ vol_call = NoVolCall
    /\ ticker = NoTicker

\* one more tick of the feed, on time
CalcTick ==
    /\ ~vol_call.called
    /\ now - feed.last_update <= 1
    /\ Len(append_log) < MaxCalcTicks
    /\ \E shock \in (IF Len(feed.history) < MaxRough THEN Shocks ELSE {0}) : FeedTick(shock)
    /\ UNCHANGED <<ticker, vol_call, avars, cvars>>

\* half a minute passes without a tick
CalcIdle ==
    /\ ~vol_call.called
    /\ now - feed.last_update < MaxIdle * 30
    /\ now' = now + 30
    /\ UNCHANGED <<feed, ticker, append_log, vol_call, avars, cvars>>

\* what a reader gets at time t from get_current_volatility(),
\* get_volatility_percentile(minutes), calculate_slippage(order_size, symbol)
\* for each of the order sizes, and get_price_history(minutes)
ReadCalculator(hist, minutes, t) ==
    [called |-> TRUE, history |-> hist, t |-> t, lookback |-> minutes,
     volatility |-> GetCurrentVolatility(hist, t),
     percentile |-> GetVolatilityPercentile(hist, minutes, t),
     slippage |-> [n \in Notionals |-> CalculateSlippage(hist, n, t)],
     price_history |-> GetPriceHistory(hist, minutes, t)]

\* a reader calls the calculator's functions
CalcRead ==
    /\ ~vol_call.called
    /\ \E lookback \in Lookbacks : vol_call' = ReadCalculator(feed.history, lookback, now)
    /\ UNCHANGED <<now, feed, ticker, append_log, avars, cvars>>

NextCalculator == CalcTick \/ CalcIdle \/ CalcRead

SpecCalculator == InitCalculator /\ [][NextCalculator]_vars

\* ------------------------------------------------------------------------
\* SpecPriceHistory: reads of get_price_history, on the window the feed
\* fills (one point per tick, stamped with the time of the tick) and on the
\* window test_get_price_history builds by appending to price_history
\* itself: points stamped base_time + i minutes, base_time being the time
\* the fixture was built.  Minutes may pass before the read.
\* ------------------------------------------------------------------------

\* the minutes argument of get_price_history; 60 is the default
HistoryMinutes == {0, 1, 5, 60}

InitPriceHistory ==
    /\ now \in StartTimes
    /\ feed = NewFeed(now)
    /\ user_analytics = <<>>
    /\ order_log = [u \in Users |-> <<>>]
    /\ last_call = NoCall
    /\ append_log = <<>>
    /\ n_burst = 0
    /\ n_calls = 0
    /\ InitConsumer
    /\ group = FALSE
    /\ vol_call = NoVolCall
    /\ ticker = NoTicker

\* the i-th point test_get_price_history appends (i = 0, 1, ...)
FixturePoint(i, base_time) ==
    [price |-> 45000 + i * 100, timestamp |-> base_time + i * 60, change |-> 100]

\* the next "calculator.price_history.append({...})" of the test's loop
FixtureAppend ==
    /\ ~vol_call.called
    /\ append_log = <<>>
    /\ now = feed.last_update
    /\ Len(feed.history) < MaxFixture
    /\ feed' = [feed EXCEPT !.history = DequeAppend(@, FixturePoint(Len(@), now))]
    /\ UNCHANGED <<now, ticker, append_log, vol_call, avars, cvars>>

\* a tick of the feed
HistTick ==
    /\ ~vol_call.called
    /\ Len(feed.history) = Len(append_log)
    /\ Len(append_log) < MaxHistTicks
    /\ \E shock \in (IF Len(append_log) < MaxRough THEN Shocks ELSE {0}) : FeedTick(shock)
    /\ UNCHANGED <<ticker, vol_call, avars, cvars>>

\* the time the calculator was built, or the time of the first tick
HistStart == IF append_log = <<>> THEN feed.last_update ELSE append_log[1].timestamp

\* a minute passes
HistWait ==
    /\ ~vol_call.called
    /\ now - HistStart < MaxWait * 60
    /\ now' = now + 60
    /\ UNCHANGED <<feed, ticker, append_log, vol_call, avars, cvars>>

\* a reader calls get_price_history(minutes)
HistRead ==
    /\ ~vol_call.called
    /\ \E minutes \in HistoryMinutes : vol_call' = ReadCalculator(feed.history, minutes, now)
    /\ UNCHANGED <<now, feed, ticker, append_log, avars, cvars>>

NextPriceHistory == FixtureAppend \/ HistTick \/ HistWait \/ HistRead

SpecPriceHistory == InitPriceHistory /\ [][NextPriceHistory]_vars

\* ------------------------------------------------------------------------
\* SpecFeed: the feed task from its creation to its end.  The price starts
\* at btc_starting_price, which the environment may set; a call of
\* _update_price may raise; stop_feed() may be called at any time and the
\* shutdown of the service cancels the task.  _update_price holds no await
\* that suspends, so the task is only ever suspended in one of the two
\* sleeps of start_btc_feed, both of one second.
\* ------------------------------------------------------------------------

\* btc_starting_price: the default, the floor and a value below the floor
StartPrices == {BtcStartingPrice, PriceFloor, 500}

InitFeed ==
    /\ now \in StartTimes
    /\ \E p \in StartPrices : feed = [NewFeed(now) EXCEPT !.price = p]
    /\ user_analytics = <<>>
    /\ order_log = [u \in Users |-> <<>>]
    /\ last_call = NoCall
    /\ append_log = <<>>
    /\ n_burst = 0
    /\ n_calls = 0
    /\ InitConsumer
    /\ group = FALSE
    /\ vol_call = NoVolCall
    /\ ticker = NoTicker

\* mutant: without the handler, an error of _update_price ends the task
Iteration_ErrorEnds(shock, ok) ==
    /\ ticker.attempts < MaxFeedTicks
    /\ IF ok
       THEN /\ FeedTick(shock)
            /\ ticker' = [ticker EXCEPT !.pc = "loop", !.running = TRUE,
                                        !.attempts = @ + 1, !.last = "ok"]
       ELSE /\ ticker.faults < MaxTickFaults
            /\ ticker.attempts + 1 < MaxFeedTicks
            /\ ticker' = [ticker EXCEPT !.pc = "done", !.running = TRUE,
                                        !.attempts = @ + 1, !.faults = @ + 1,
                                        !.last = "raised"]
            /\ UNCHANGED <<now, feed, append_log>>
    /\ UNCHANGED <<vol_call, avars, cvars>>

\* one pass through the body of "while self.running:": _update_price
\* returns and the task sleeps price_update_interval_seconds, or it raises
\* before it has changed anything and the task sleeps 1 second
Iteration(shock, ok) ==
    /\ ticker.attempts < MaxFeedTicks
    /\ IF ok
       THEN /\ FeedTick(shock)
            /\ ticker' = [ticker EXCEPT !.pc = "loop", !.running = TRUE,
                                        !.attempts = @ + 1, !.last = "ok"]
       ELSE /\ ticker.faults < MaxTickFaults
            /\ ticker.attempts + 1 < MaxFeedTicks
            /\ now' = now + 1
            /\ ticker' = [ticker EXCEPT !.pc = "loop", !.running = TRUE,
                                        !.attempts = @ + 1, !.faults = @ + 1,
                                        !.last = "raised"]
            /\ UNCHANGED <<feed, append_log>>
    /\ UNCHANGED <<vol_call, avars, cvars>>

\* the first step of the task: start_btc_feed sets running and enters the loop
FeedStart ==
    /\ ticker.pc = "created"
    /\ \E shock \in (IF Len(append_log) < MaxRough THEN Shocks ELSE {0}), ok \in BOOLEAN :
          Iteration(shock, ok)

\* a sleep is over: the loop condition is looked at again
FeedLoop ==
    /\ ticker.pc = "loop"
    /\ IF ticker.running
       THEN \E shock \in (IF Len(append_log) < MaxRough THEN Shocks ELSE {0}), ok \in BOOLEAN :
               Iteration(shock, ok)
       ELSE /\ ticker' = [ticker EXCEPT !.pc = "done"]
            /\ UNCHANGED <<now, feed, append_log, vol_call, avars, cvars>>

\* stop_feed()
StopFeed ==
    /\ ticker.pc \in {"created", "loop"}
    /\ ticker.stopped = "no"
    /\ ticker' = [ticker EXCEPT !.running = FALSE,
                                !.stopped = IF ticker.pc = "created" THEN "early" ELSE "yes"]
    /\ UNCHANGED <<now, feed, append_log, vol_call, avars, cvars>>

\* volatility_task.cancel() of lifespan: the CancelledError is thrown into
\* the sleep the task is suspended in (or the task never starts); it is not
\* an Exception, so the handler of start_btc_feed does not catch it
FeedCancel ==
    /\ ticker.pc \in {"created", "loop"}
    /\ ticker' = [ticker EXCEPT !.pc = "cancelled"]
    /\ UNCHANGED <<now, feed, append_log, vol_call, avars, cvars>>

FeedStep == FeedStart \/ FeedLoop

NextFeed == FeedStep \/ StopFeed \/ FeedCancel

SpecFeed == InitFeed /\ [][NextFeed]_vars

\* the event loop resumes the feed task whenever its sleep is over
FairFeed == SpecFeed /\ WF_vars(FeedStep)

\* ------------------------------------------------------------------------
\* SpecBatch: the consumer on a stream that already holds MaxBatch entries
\* when it starts, so that its first answered poll delivers them all as one
\* batch (count=10); nothing is added afterwards.
\* ------------------------------------------------------------------------

\* the entries waiting on the stream: two good orders and an unparseable one
BatchInputs(t) ==
    {DirectFields(201, "u1", Num(1), Num(100), Iso(t)),
     WrappedFields(202, "u2", Num(1), Num(100), Iso(t)),
     DirectFields(302, "u1", NotNum, Num(100), Iso(t))}

InitBatch ==
    /\ now = 10 * 3600
    /\ feed = NewFeed(now)
    /\ user_analytics = <<>>
    /\ order_log = [u \in Users |-> <<>>]
    /\ last_call = NoCall
    /\ append_log = <<>>
    /\ n_burst = 0
    /\ n_calls = 0
    /\ c_pc = "idle"
    /\ running = FALSE
    /\ stream \in [1..MaxBatch -> BatchInputs(now)]
    /\ last_delivered = 0
    /\ pel = {}
    /\ batch = <<>>
    /\ cur = NoAnalysis
    /\ store = <<>>
    /\ faults = 0
    /\ proc = [k \in 1..MaxBatch |-> NewProc]
    /\ polls = 0
    /\ run_log = {}
    /\ group = FALSE
    /\ vol_call = NoVolCall
    /\ ticker = NoTicker

NextBatch == ConsumerStep

SpecBatch == InitBatch /\ [][NextBatch]_vars

\* ------------------------------------------------------------------------
\* Claims
\* ------------------------------------------------------------------------

\* the stream entries whose processing is over: delivered and no longer in
\* the batch the consumer is working on
Finished(i) == i \in DOMAIN proc /\ proc[i].delivered > 0 /\ i \notin SeqToSet(batch)

\* C1: a delivered message is acknowledged only if its parse, scoring and
\* persistence all succeeded; a message whose result could not be written to
\* the store (hset raised) is not acknowledged and stays pending.
C1_AckOnlyAfterPersist ==
    \A i \in DOMAIN proc :
        /\ proc[i].acked => (proc[i].outcome = "scored" /\ proc[i].hset = "ok")
        /\ proc[i].hset = "raised" => (~proc[i].acked /\ i \in pel)

\* C2: a stream entry whose fields do not parse into an Order (missing field,
\* non-numeric quantity or price, unparseable timestamp, invalid orderData
\* JSON) is never acknowledged (no xack is even issued for it, and once
\* delivered it stays pending) and no record is written for it to the store.
C2_UnparseableNeverAcked ==
    \A i \in DOMAIN stream :
        stream[i] \in BadInputs(now) =>
            /\ ~proc[i].acked
            /\ proc[i].acks = 0
            /\ proc[i].hset = "none"
            /\ proc[i].delivered > 0 => i \in pel
            /\ AnalysisKey(stream[i].orderId) \notin DOMAIN store
            /\ \A k \in DOMAIN store : store[k].data.messageId # i

\* an unparseable entry has been delivered, its processing is over and the
\* consumer is polling again
C2_Witness ==
    /\ c_pc = "xreadgroup"
    /\ \E i \in DOMAIN stream :
           /\ stream[i] \in BadInputs(now)
           /\ Finished(i)
           /\ proc[i].outcome = "parse"
           /\ i \in pel

\* C3: for a delivered message whose parse, scoring and persistence all
\* succeeded the consumer issues exactly one xack, and when that xack is
\* issued, and from then on, a lookup by the order's id finds the record
\* under analysis:<orderId>, holding the verdict and score just computed.
C3_AckedOnceAndRetrievable ==
    /\ \A i \in DOMAIN proc :
           /\ proc[i].acks <= 1
           /\ (proc[i].outcome = "scored" /\ proc[i].hset = "ok" /\ proc[i].expire # "none")
                  => proc[i].acks = 1
           /\ (proc[i].acks = 1 /\ proc[i].hset = "ok")
                  => LET r == GetAnalysisResult(store, stream[i].orderId)
                     IN r.found /\ r.orderId = stream[i].orderId
    /\ (c_pc = "xack" /\ proc[Head(batch)].hset = "ok")
           => LET r == GetAnalysisResult(store, cur.orderId)
              IN /\ r.found
                 /\ r.orderId = cur.orderId
                 /\ r.verdict = cur.verdict
                 /\ r.riskScore = cur.riskScore
                 /\ r.messageId = Head(batch)

\* a message went through parse, scoring, hset and expire, was acknowledged
\* by its one xack, and its record is found by its order id
C3_Witness ==
    \E i \in DOMAIN proc :
        /\ proc[i].outcome = "scored" /\ proc[i].hset = "ok" /\ proc[i].expire = "ok"
        /\ proc[i].acks = 1
        /\ proc[i].acked
        /\ GetAnalysisResult(store, stream[i].orderId).messageId = i

\* C4: under fair scheduling of the consumer, a message whose processing
\* failed and which was left pending is eventually delivered to the consumer
\* again (and so can eventually be acknowledged); stated for the first entry
\* of the stream.
C4_FailedRedelivered ==
    (Finished(1) /\ 1 \in pel)
        ~> (1 \in DOMAIN proc /\ (proc[1].delivered > 1 \/ proc[1].acked))

\* C5: processing an order again writes under the same key analysis:<orderId>
\* as the first pass, so the store holds one record per order id, each under
\* the key of its order id, and the consumer loop goes on.
C5_OneRecordPerOrder ==
    /\ \A k \in DOMAIN store : k = AnalysisKey(store[k].data.orderId)
    /\ \A k1, k2 \in DOMAIN store :
           store[k1].data.orderId = store[k2].data.orderId => k1 = k2
    /\ \A i \in DOMAIN proc :
           proc[i].hset = "ok" => AnalysisKey(stream[i].orderId) \in DOMAIN store
    /\ (running /\ last_delivered > 0)
           => c_pc \in {"xreadgroup", "sleep", "process", "hset", "expire", "xack"}

\* the same order was processed and stored twice; the store holds the one
\* record, written by the second pass, and the consumer is polling again
C5_Witness ==
    /\ c_pc = "xreadgroup"
    /\ \E i, j \in DOMAIN proc :
           /\ i < j
           /\ stream[i].orderId = stream[j].orderId
           /\ proc[i].hset = "ok" /\ proc[j].hset = "ok"
           /\ Finished(j)
           /\ Cardinality(DOMAIN store) = 1
           /\ store[AnalysisKey(stream[j].orderId)].data.messageId = j

\* C6: analyses of one user's orders by the consumer and by POST /analyze do
\* not interleave: after k of them have completed, the user's profile counts
\* k orders and its cumulative volume is the sum of their k notionals.
C6_NoLostUpdate ==
    \A u \in DOMAIN user_analytics :
        /\ user_analytics[u].total_orders = Len(order_log[u])
        /\ user_analytics[u].total_volume =
               SumSeq([k \in 1..Len(order_log[u]) |-> order_log[u][k].size])

\* a request for u1 was served while the consumer was suspended in the
\* middle of processing a message of u1, and both orders are counted
C6_Witness ==
    /\ c_pc \in {"hset", "expire", "xack"}
    /\ cur.userId = "u1"
    /\ last_call.by = "manual"
    /\ last_call.ok
    /\ last_call.analysis.userId = "u1"
    /\ user_analytics["u1"].total_orders = 2
    /\ user_analytics["u1"].total_volume = 1100

\* C7: every RiskAnalysis analyze returns has verdict REJECT exactly when its
\* accumulated score is >= 70, WARN exactly when 30 <= score < 70 and ACCEPT
\* exactly when score < 30; the comparison is on the accumulated score, so
\* 75 and 70 give REJECT, 45 and 30 give WARN, 10 gives ACCEPT.
C7_VerdictBands ==
    LET Verdict(score) == DetermineVerdict([NoAnalysis EXCEPT !.riskScore = score]).verdict
    IN /\ last_call.ok =>
            LET a == last_call.analysis
            IN /\ (a.verdict = "REJECT") <=> (a.riskScore >= 70)
               /\ (a.verdict = "WARN") <=> (a.riskScore >= 30 /\ a.riskScore < 70)
               /\ (a.verdict = "ACCEPT") <=> (a.riskScore < 30)
       /\ Verdict(75) = "REJECT" /\ Verdict(70) = "REJECT"
       /\ Verdict(45) = "WARN" /\ Verdict(30) = "WARN"
       /\ Verdict(10) = "ACCEPT"

\* an analysis was returned with the accumulated score exactly on a threshold
C7_Witness ==
    /\ last_call.ok
    /\ last_call.analysis.riskScore = 70
    /\ last_call.analysis.verdict = "REJECT"

\* C8: the risk score of every RiskAnalysis analyze returns lies in 0..100.
C8_ScoreInRange ==
    last_call.ok => (last_call.analysis.riskScore >= 0 /\ last_call.analysis.riskScore <= 100)

\* C9: the price window never holds more than 1000 points; after n appends
\* it holds exactly min(n, 1000) points, the most recently appended ones in
\* insertion order.
C9_WindowBounded ==
    LET n == Len(append_log)
    IN /\ Len(feed.history) <= 1000
       /\ Len(feed.history) = Min(n, 1000)
       /\ feed.history = LastN(append_log, 1000)

\* 1200 appends have been made and the oldest 200 points are gone
C9_Witness ==
    /\ Len(append_log) = 1200
    /\ Len(feed.history) = 1000
    /\ feed.history[1] = append_log[201]

\* C10: every user's recent-order history holds at most 100 entries and is
\* always the user's most recent min(total orders, 100) order summaries in
\* order (an append to a full history drops the oldest entry).
C10_HistoryBounded ==
    \A u \in DOMAIN user_analytics :
        LET p == user_analytics[u]
        IN /\ Len(p.recent_orders) <= 100
           /\ Len(p.recent_orders) = Min(p.total_orders, 100)
           /\ p.total_orders = Len(order_log[u])
           /\ p.recent_orders = LastN(order_log[u], 100)

\* a user has more than 100 scored orders and the oldest summary was dropped
C10_Witness ==
    \E u \in DOMAIN user_analytics :
        /\ user_analytics[u].total_orders > 100
        /\ Len(user_analytics[u].recent_orders) = 100
        /\ user_analytics[u].recent_orders[1] = order_log[u][Len(order_log[u]) - 99]
        /\ user_analytics[u].recent_orders[1] # order_log[u][1]

\* the states of the consume loop
Consuming == {"xreadgroup", "sleep", "process", "hset", "expire", "xack"}

\* C11: a poll that raises never ends the consume loop: while the stop flag
\* is not set, the loop leaves a poll only to process a batch, to poll again
\* or to its backoff sleep, and leaves the sleep only to poll again.
C11_PollFailureRetries ==
    [][/\ (c_pc = "xreadgroup" /\ running') => c_pc' \in {"xreadgroup", "process", "sleep"}
       /\ (c_pc = "sleep" /\ running') => c_pc' \in {"sleep", "xreadgroup"}]_vars

\* the first poll raised, the backoff is over and the consumer polls again
C11_Witness ==
    /\ c_pc = "xreadgroup"
    /\ running
    /\ faults = 1
    /\ polls = 1
    /\ last_delivered = 0

\* C12: the run goes Disconnected -> Connected -> GroupEnsured -> Consuming:
\* the loop is entered, and a poll made, only after ping returned and the
\* group was created or answered BUSYGROUP; BUSYGROUP never fails the run,
\* and after any other xgroup_create error the loop is never entered.
C12_StartupOrder ==
    LET ensured == "created" \in run_log \/ "BUSYGROUP" \in run_log
    IN /\ ensured => "Connected" \in run_log
       /\ "Consuming" \in run_log <=> ensured
       /\ ensured => group
       /\ (c_pc \in Consuming \/ polls = 1 \/ last_delivered > 0) => "Consuming" \in run_log
       /\ c_pc \in {"idle", "ping"} => run_log \subseteq {"stop", "shutdown"}
       /\ "error" \in run_log => (~ensured /\ c_pc \in Ended \ {"done"})
       /\ c_pc = "failed" => ~ensured

\* the group existed, xgroup_create answered BUSYGROUP, and the consumer
\* has polled and got a message delivered
C12_Witness ==
    /\ "BUSYGROUP" \in run_log
    /\ "Connected" \in run_log
    /\ c_pc \in Consuming
    /\ last_delivered > 0

\* C13: after stop the consume loop starts no further poll, and the run ends.
C13_StopEndsLoop ==
    /\ [][~running => (c_pc' = "xreadgroup" => (c_pc = "xreadgroup" /\ polls' = polls))]_vars
    /\ (~running /\ c_pc # "idle") ~> (c_pc \in Ended)

\* stop() alone was called on the consuming consumer, whose loop has exited
\* after finishing and acknowledging a message
C13_Witness ==
    /\ "stop" \in run_log
    /\ "shutdown" \notin run_log
    /\ ~running
    /\ c_pc = "done"
    /\ \E i \in DOMAIN proc : proc[i].acked

\* C14: stopping never cancels a message mid-processing: when the run has
\* ended, every message that was scored has had its store step run to its
\* end or its own failure and its acknowledgment issued.
C14_NoMidMessageCancel ==
    c_pc \in Ended =>
        \A i \in DOMAIN proc :
            proc[i].outcome = "scored" =>
                /\ proc[i].hset # "none"
                /\ proc[i].hset = "ok" => proc[i].expire # "none"
                /\ proc[i].acks = 1

\* the summary reasons of _determine_verdict
Summaries == {"High risk score", "Moderate risk score", "Low risk score"}

\* the reason r is among the reasons of analysis a
HasReason(a, r) == \E k \in 1..Len(a.reasons) : a.reasons[k] = r

\* C15: every RiskAnalysis analyze returns has a non-empty reasons list whose
\* first element is the score summary, the only summary in the list, of the
\* band of the verdict (High/REJECT, Moderate/WARN, Low/ACCEPT).
C15_SummaryFirst ==
    last_call.ok =>
        LET a == last_call.analysis
        IN /\ Len(a.reasons) >= 1
           /\ a.reasons[1] \in Summaries
           /\ {k \in 1..Len(a.reasons) : a.reasons[k] \in Summaries} = {1}
           /\ a.reasons[1] = "High risk score" <=> a.verdict = "REJECT"
           /\ a.reasons[1] = "Moderate risk score" <=> a.verdict = "WARN"
           /\ a.reasons[1] = "Low risk score" <=> a.verdict = "ACCEPT"

\* a rejected analysis with four component reasons behind its summary
C15_Witness ==
    /\ last_call.ok
    /\ last_call.analysis.verdict = "REJECT"
    /\ Len(last_call.analysis.reasons) >= 5
    /\ last_call.analysis.reasons[1] = "High risk score"

\* the points each component reason stands for
ReasonPoints(r) ==
    CASE r = "Extreme volatility detected" -> 30
      [] r = "High volatility detected" -> 15
      [] r = "Volatility in top 10% of recent range" -> 10
      [] r = "High slippage risk" -> 20
      [] r = "Moderate slippage risk" -> 10
      [] r = "High order frequency" -> 25
      [] r = "Unusually large order" -> 15
      [] r = "First-time user" -> 5
      [] r = "Trading outside market hours - reduced liquidity" -> 5
      [] r = "Weekend trading - limited market oversight" -> 10
      [] r = "Recent large price movement" -> 10
      [] OTHER -> 0

\* C16: an analysis carries the "First-time user" reason, and its 5 points in
\* the score, exactly when the user's profile counted zero orders when the
\* analysis read it; an order of a user with a scored order never does.
C16_FirstTimeFlag ==
    [][((n_burst' # n_burst \/ n_calls' # n_calls) /\ last_call'.ok) =>
          LET a == last_call'.analysis
              prior == IF a.userId \in DOMAIN user_analytics
                       THEN user_analytics[a.userId].total_orders ELSE 0
          IN /\ HasReason(a, "First-time user") <=> prior = 0
             /\ a.riskScore = SumSeq([k \in 1..Len(a.reasons) |-> ReasonPoints(a.reasons[k])])
             /\ Len(order_log[a.userId]) > 0 => ~HasReason(a, "First-time user")]_vars

\* the first scored order of a user was flagged, with nothing else to score
C16_Witness ==
    /\ last_call.ok
    /\ HasReason(last_call.analysis, "First-time user")
    /\ user_analytics[last_call.analysis.userId].total_orders = 1
    /\ last_call.analysis.riskScore = 5

\* the tracker after k equal orders of u1 were analyzed in the current state
RECURSIVE TrackerAfter(_)
TrackerAfter(k) ==
    IF k = 0 THEN << >>
    ELSE AnalyzeOrder(BurstOrder(k, now), TrackerAfter(k - 1), feed.history, now).ua

\* the three user-behaviour reasons are all among the reasons of a
AllThree(a) ==
    /\ HasReason(a, "High order frequency")
    /\ HasReason(a, "Unusually large order")
    /\ HasReason(a, "First-time user")

\* C17 as claimed: the three user-behaviour rules can all fire together:
\* there is a tracker state, reached by analyzing orders, and an order for
\* which the analysis adds all three contributions.
C17_AllThreeTogether ==
    \E k \in 0..MaxBurst : \E od \in GoodInputs(now) :
        LET r == AnalyzeOrder(od, TrackerAfter(k), feed.history, now)
        IN r.ok /\ AllThree(r.analysis)

\* C17 as amended: the first-time rule fires only for a user without a
\* scored order, and then neither the frequency rule nor the large-order
\* rule fires; the three never fire together.
C17_FirstTimeExcludesOthers ==
    last_call.ok =>
        LET a == last_call.analysis
        IN /\ HasReason(a, "First-time user") =>
                 /\ ~HasReason(a, "High order frequency")
                 /\ ~HasReason(a, "Unusually large order")
                 /\ Len(order_log[a.userId]) = 1
           /\ ~AllThree(a)

\* the frequency rule and the large-order rule fired in the same analysis
C17_Witness ==
    /\ last_call.ok
    /\ HasReason(last_call.analysis, "High order frequency")
    /\ HasReason(last_call.analysis, "Unusually large order")
    /\ ~HasReason(last_call.analysis, "First-time user")

\* the number of points of hist inside the volatility window at time t
InWindowCount(hist, t) ==
    Cardinality({k \in 1..Len(hist) : hist[k].timestamp > t - VolatilityWindowMinutes * 60})

\* C18: get_current_volatility returns exactly 0 whenever fewer than 2 of the
\* retained points lie inside the trailing window, and whenever fewer than
\* 10 points are retained, however many of them lie inside the window.
C18_ZeroOnShortWindow ==
    vol_call.called =>
        /\ InWindowCount(vol_call.history, vol_call.t) < 2 => vol_call.volatility = 0
        /\ Len(vol_call.history) < 10 => vol_call.volatility = 0

\* nine retained points, all inside the window, with moving prices: 0
C18_Witness ==
    /\ vol_call.called
    /\ Len(vol_call.history) = 9
    /\ InWindowCount(vol_call.history, vol_call.t) = 9
    /\ vol_call.history[1].price # vol_call.history[2].price
    /\ vol_call.volatility = 0

\* C19: calculate_slippage is strictly increasing in the order notional, for
\* a fixed price window and hour: a < b gives slippage(a) < slippage(b).
C19_SlippageStrictlyIncreasing ==
    vol_call.called =>
        \A a, b \in Notionals : a < b => vol_call.slippage[a] < vol_call.slippage[b]

\* the 10-point blocks get_volatility_percentile samples: every tenth index
\* below len - 10 whose point is not older than the lookback (0-based)
QualifyingBlocks(hist, lookback, t) ==
    {i \in 0..(Len(hist) - 1) :
        /\ i % 10 = 0
        /\ i < Len(hist) - 10
        /\ hist[i + 1].timestamp >= t - lookback * 60}

\* C20: get_volatility_percentile returns a value in [0, 100], and exactly
\* 50.0 when no 10-point block qualifies.
C20_PercentileInRange ==
    vol_call.called =>
        /\ vol_call.percentile >= 0
        /\ vol_call.percentile <= 10000
        /\ QualifyingBlocks(vol_call.history, vol_call.lookback, vol_call.t) = {}
              => vol_call.percentile = 5000

\* more than 20 points are retained but every block starts before the
\* lookback of one minute: 50.0
C20_Witness ==
    /\ vol_call.called
    /\ Len(vol_call.history) > 20
    /\ vol_call.lookback = 1
    /\ QualifyingBlocks(vol_call.history, vol_call.lookback, vol_call.t) = {}
    /\ vol_call.percentile = 5000

\* the window of test_get_price_history: ten points one minute apart, the
\* first stamped base_time
TestWindow(hist, base_time) ==
    /\ Len(hist) = 10
    /\ \A i \in 1..10 : hist[i] = FixturePoint(i - 1, base_time)

C23_PriceFloored ==
    append_log # <<>> =>
        LET p == append_log[Len(append_log)]
        IN /\ p.price = feed.price
           /\ p.price >= 1000
           /\ feed.history[Len(feed.history)] = p
           /\ \A k \in DOMAIN append_log : append_log[k].price >= 1000

\* a tick took the price below 1000 and the floor was applied
C23_Witness ==
    /\ Len(append_log) >= 2
    /\ LET n == Len(append_log)
       IN /\ append_log[n - 1].price + append_log[n].change < 1000
          /\ append_log[n].price = 1000
          /\ feed.price = 1000

\* C27: the change field of every point is its price minus the price that
\* was current before the tick (the price of the point appended before it),
\* also on the ticks on which the floor at 1000 is applied.
C27_ChangeIsPriceDifference ==
    \A k \in 2..Len(append_log) :
        append_log[k].change = append_log[k].price - append_log[k - 1].price

\* an analyze_order call is made in this step
Called == n_burst' # n_burst \/ n_calls' # n_calls

\* C24: when analyze fails with a parse error on malformed input, no scoring
\* stage has run, no RiskAnalysis is returned and the user tracker is as it
\* was: no profile created, no profile's counts or history modified.
C24_ParseErrorLeavesTracker ==
    [][(Called /\ last_call'.order_data \in BadInputs(now)) =>
          /\ ~last_call'.ok
          /\ last_call'.error = "parse"
          /\ last_call'.analysis = NoAnalysis
          /\ user_analytics' = user_analytics
          /\ order_log' = order_log]_vars

\* a malformed order of u1 failed to parse after an order of u1 was scored,
\* and u1's profile still counts that one order
C24_Witness ==
    /\ last_call.by = "manual"
    /\ last_call.error = "parse"
    /\ last_call.order_data.userId = "u1"
    /\ "u1" \in DOMAIN user_analytics
    /\ user_analytics["u1"].total_orders = 1
    /\ "u2" \notin DOMAIN user_analytics

\* C25: a scored order updates its user's profile once, with the final score
\* and verdict: total orders + 1, cumulative volume + notional, one summary
\* appended to the recent orders, risk events + 1 exactly for WARN and
\* REJECT; other profiles are untouched, and the scoring itself saw the
\* profile as it was before (first-time and frequency rules).
C25_ProfileUpdatedOnce ==
    [][(Called /\ last_call'.ok) =>
          LET a == last_call'.analysis
              o == Order(last_call'.order_data)
              u == a.userId
              pre == IF u \in DOMAIN user_analytics THEN user_analytics[u] ELSE NewProfile(now)
              post == user_analytics'[u]
              summary == [orderId |-> o.orderId, timestamp |-> o.timestamp,
                          size |-> o.quantity * o.price, riskScore |-> a.riskScore]
              IsRecent(x) == x.timestamp > now - 300
          IN /\ post.total_orders = pre.total_orders + 1
             /\ post.total_volume = pre.total_volume + o.quantity * o.price
             /\ post.recent_orders = LastN(Append(pre.recent_orders, summary), 100)
             /\ post.risk_events =
                    pre.risk_events + (IF a.verdict \in {"WARN", "REJECT"} THEN 1 ELSE 0)
             /\ a.verdict \in {"ACCEPT", "WARN", "REJECT"}
             /\ order_log'[u] = Append(order_log[u], summary)
             /\ \A v \in DOMAIN user_analytics' \ {u} :
                    v \in DOMAIN user_analytics /\ user_analytics'[v] = user_analytics[v]
             /\ HasReason(a, "First-time user") <=> pre.total_orders = 0
             /\ HasReason(a, "High order frequency")
                    <=> Len(SelectSeq(pre.recent_orders, IsRecent)) > 10]_vars

\* a user has accepted orders and one order with a WARN or REJECT verdict,
\* the latest, and the profile counts one risk event
C25_Witness ==
    /\ last_call.ok
    /\ last_call.analysis.verdict \in {"WARN", "REJECT"}
    /\ LET p == user_analytics[last_call.analysis.userId]
       IN /\ p.total_orders >= 2
          /\ p.risk_events = 1
          /\ p.recent_orders[Len(p.recent_orders)].riskScore = last_call.analysis.riskScore

\* C26: calculate_slippage returns 5 + min(notional / 100000, 50)
\* + min(volatility * 1000, 20) + (5 in the hours 2..6, else 0) basis points.
C26_SlippageFormula ==
    vol_call.called =>
        \A n \in Notionals :
            vol_call.slippage[n] =
                5000 + Min(n \div 100, 50000) + Min(vol_call.volatility, 20000)
                     + (IF Hour(vol_call.t) \in 2..6 THEN 5000 ELSE 0)

\* C28: the messages of a batch are processed one at a time in the order of
\* delivery; each one is processed whatever became of those before it, and a
\* scored one gets its xack, which acknowledges it unless a Redis call failed.
C28_BatchInOrder ==
    /\ \A i, j \in DOMAIN proc :
           /\ proc[i].delivered = proc[j].delivered
           /\ (i < j /\ proc[j].outcome # "none")
                  => (proc[i].outcome # "none" /\ i \notin SeqToSet(batch))
    /\ \A i \in DOMAIN proc :
           (proc[i].delivered > 0 /\ i \notin SeqToSet(batch)) =>
               /\ proc[i].outcome # "none"
               /\ proc[i].outcome = "scored" => proc[i].acks = 1
               /\ (proc[i].outcome = "scored" /\ faults = 0) => (proc[i].acked /\ i \notin pel)
               /\ proc[i].outcome # "scored" => (~proc[i].acked /\ i \in pel)
    /\ c_pc \in {"hset", "expire", "xack"} =>
           (batch # <<>> /\ proc[Head(batch)].outcome = "scored")

\* the first message of the batch failed to parse and is pending; the
\* second was scored, stored and acknowledged
C28_Witness ==
    /\ c_pc = "xreadgroup"
    /\ proc[1].outcome = "parse"
    /\ ~proc[1].acked
    /\ 1 \in pel
    /\ proc[2].outcome = "scored"
    /\ proc[2].hset = "ok"
    /\ proc[2].acked
    /\ 2 \notin pel

\* C29: each distinct order id counts at most once in its user's total
\* orders, cumulative volume and recent-order history, however often
\* messages carrying it are processed.
C29_OrderCountedOnce ==
    \A u \in DOMAIN user_analytics :
        LET ids == {order_log[u][k].orderId : k \in 1..Len(order_log[u])}
            p == user_analytics[u]
        IN /\ p.total_orders <= Cardinality(ids)
           /\ Len(p.recent_orders) <= Cardinality(ids)
           /\ \A k, l \in DOMAIN p.recent_orders :
                  p.recent_orders[k].orderId = p.recent_orders[l].orderId => k = l

\* C30: for every order whose fields parse into an Order, analyze returns a
\* RiskAnalysis with a verdict; no scoring stage raises.
C30_WellFormedAlwaysScored ==
    (last_call.by # "none" /\ ParseSucceeds(last_call.order_data)) =>
        /\ last_call.ok
        /\ last_call.analysis.verdict \in {"ACCEPT", "WARN", "REJECT"}
====
